---- MODULE Spec2Model ----
(***************************************************************************)
(* A model of src/index.js: the chunker (chunkText), the folder indexer    *)
(* (indexLocalDocs, saveChunksAsEmbeddings, POST /index-docs) and the      *)
(* query pipeline (processQuery, POST /query).                             *)
(*                                                                         *)
(* A JavaScript string is a sequence of one-character strings.             *)
(***************************************************************************)
EXTENDS Integers, Sequences, FiniteSets, Bags, TLC

VARIABLES
    \* ---- chunkText(text, chunkSize, chunkOverlap), one call
    ck_pc,          \* "call" | "loop" | "return"
    text,           \* the argument text
    chunkSize,      \* the argument chunkSize
    chunkOverlap,   \* the argument chunkOverlap
    cleanText,      \* const cleanText
    i,              \* the loop variable i
    textChunks,     \* const textChunks = []
    chunkStarts,    \* history: the offset i at which each pushed chunk was cut
    iters,          \* history: the number of loop bodies run
    \* ---- POST /index-docs, one request
    ix_pc,          \* "idle" | "loop" | "extracting" | "awaiting" | "responded"
    dirExists,      \* fs.existsSync(DOCS_DIR)
    files,          \* fs.readdirSync(DOCS_DIR), each file by its kind
    cur,            \* the position of the for-of loop in files
    ops,            \* the chunk promises of the last saveChunksAsEmbeddings, each
                    \* "embedding" | "inserting" | "done" | "failed"
    embedCalls,     \* history: <<file, chunk>> of every embeddings.create issued
    insertCalls,    \* history: <<file, chunk>> of every insert issued
    store,          \* the rows of MyPDFDocuments, a bag of <<file, chunk>>
    warned,         \* history: the files console.warn reported as skipped
    embedded,       \* history: <<file, chunk>> of every embedding that resolved
    ix_res,         \* the status of the /index-docs response: 0 (none yet), 200, 500
    \* ---- POST /query, one request
    q_pc,           \* "idle" | "embedding" | "searching" | "generating" | "responded"
    query,          \* req.body.query, a JavaScript value
    input,          \* const input
    rows,           \* data of the match_documents result
    context,        \* let context
    calls,          \* history: the collaborator calls issued, in order
    outcomes,       \* history: how each collaborator call ended, "ok" or "error"
    q_res           \* the response of /query

chunkVars == <<ck_pc, text, chunkSize, chunkOverlap, cleanText, i, textChunks,
               chunkStarts, iters>>
indexVars == <<ix_pc, dirExists, files, cur, ops, embedCalls, insertCalls, store,
               warned, embedded, ix_res>>
queryVars == <<q_pc, query, input, rows, context, calls, outcomes, q_res>>
vars == <<chunkVars, indexVars, queryVars>>

\* ------------------------------------------------------------------ bounds

MaxTextLen == 4
MaxChunkSize == 4
\* the cap on loop bodies of one chunkText call: a terminating call runs at most
\* Len(cleanText) of them, so the cap cuts only calls that would never return
MaxIters == MaxTextLen + 2
\* the longest directory listing
MaxFiles == 3
\* the longest query string and the most rows a search returns
MaxQueryLen == 2
MaxRows == 2
\* the length of the long document's text: more than one chunk at the defaults
LongTextLen == 900

Chars == {"a", "b", " ", "\n"}

RECURSIVE SeqsUpTo(_, _)
SeqsUpTo(S, n) ==
    IF n = 0 THEN {<<>>}
    ELSE LET shorter == SeqsUpTo(S, n - 1)
         IN  shorter \cup {Append(s, c) : s \in {t \in shorter : Len(t) = n - 1}, c \in S}

\* ------------------------------------------------------- string helpers

Min(a, b) == IF a < b THEN a ELSE b
Max(a, b) == IF a > b THEN a ELSE b

\* the characters \s matches and String.prototype.trim strips
IsSpace(c) == c \in {" ", "\n"}

RECURSIVE TrimStart(_)
TrimStart(s) ==
    IF s # <<>> /\ IsSpace(Head(s)) THEN TrimStart(Tail(s)) ELSE s

RECURSIVE TrimEnd(_)
TrimEnd(s) ==
    IF s # <<>> /\ IsSpace(s[Len(s)]) THEN TrimEnd(SubSeq(s, 1, Len(s) - 1)) ELSE s

\* s.trim()
Trim(s) == TrimEnd(TrimStart(s))

\* s.replace(/\s+/g, ' '): every run of whitespace becomes one space, that is,
\* the first character of a run becomes a space and the rest of the run goes
IsKept(m) == m.keep
CollapseSpaces(s) ==
    LET marked == [p \in 1..Len(s) |->
                     [c    |-> IF IsSpace(s[p]) THEN " " ELSE s[p],
                      keep |-> \/ ~IsSpace(s[p])
                               \/ p = 1
                               \/ ~IsSpace(s[p - 1])]]
        kept == SelectSeq(marked, IsKept)
    IN  [k \in 1..Len(kept) |-> kept[k].c]

\* s.substring(start, end): both clamped to [0, length], swapped when start > end
Substring(s, start, end) ==
    LET a == Min(Max(start, 0), Len(s))
        b == Min(Max(end, 0), Len(s))
    IN  SubSeq(s, Min(a, b) + 1, Max(a, b))

\* ---------------------------------------------------------------- chunkText

\* text.replace(/\s+/g, ' ').trim()
CleanText(t) == Trim(CollapseSpaces(t))

\* a mutant of Stride: the offset advances one character too far
StrideSkipsOne(size, overlap) == size - overlap + 1

\* i += chunkSize - chunkOverlap
Stride(size, overlap) == size - overlap

\* cleanText.substring(i, i + chunkSize)
ChunkAt(clean, at, size) == Substring(clean, at, at + size)

\* chunk.trim().length > 0
KeepChunk(chunk) == Len(Trim(chunk)) > 0

\* the for loop of chunkText from offset `at` on, for a positive stride
RECURSIVE ChunkLoop(_, _, _, _, _)
ChunkLoop(clean, size, overlap, at, acc) ==
    IF ~(at < Len(clean)) THEN acc
    ELSE LET chunk == ChunkAt(clean, at, size)
         IN  ChunkLoop(clean, size, overlap, at + Stride(size, overlap),
                       IF KeepChunk(chunk) THEN Append(acc, chunk) ELSE acc)

\* chunkText(text, chunkSize, chunkOverlap) as a value, for chunkOverlap < chunkSize
ChunkText(t, size, overlap) == ChunkLoop(CleanText(t), size, overlap, 0, <<>>)

ChunkIdle ==
    /\ ck_pc = "return" /\ text = <<>> /\ chunkSize = 1 /\ chunkOverlap = 0
    /\ cleanText = <<>> /\ i = 0 /\ textChunks = <<>> /\ chunkStarts = <<>>
    /\ iters = 0

\* a call chunkText(text, chunkSize, chunkOverlap) with any arguments
ChunkInit ==
    /\ ck_pc = "call"
    /\ text \in SeqsUpTo(Chars, MaxTextLen)
    /\ chunkSize \in 1..MaxChunkSize
    /\ chunkOverlap \in 0..(MaxChunkSize + 1)
    /\ cleanText = <<>> /\ i = 0 /\ textChunks = <<>> /\ chunkStarts = <<>>
    /\ iters = 0

\* lines 38-41: textChunks = [], cleanText = ..., let i = 0
ChunkEnter ==
    /\ ck_pc = "call"
    /\ cleanText' = CleanText(text)
    /\ textChunks' = <<>>
    /\ chunkStarts' = <<>>
    /\ i' = 0
    /\ ck_pc' = "loop"
    /\ UNCHANGED <<text, chunkSize, chunkOverlap, iters, indexVars, queryVars>>

\* one body of the for loop, with its update i += chunkSize - chunkOverlap
ChunkStep ==
    /\ ck_pc = "loop"
    /\ i < Len(cleanText)
    /\ iters < MaxIters
    /\ LET chunk == ChunkAt(cleanText, i, chunkSize)
       IN  IF KeepChunk(chunk)
           THEN /\ textChunks' = Append(textChunks, chunk)
                /\ chunkStarts' = Append(chunkStarts, i)
           ELSE UNCHANGED <<textChunks, chunkStarts>>
    /\ i' = i + Stride(chunkSize, chunkOverlap)
    /\ iters' = iters + 1
    /\ UNCHANGED <<ck_pc, text, chunkSize, chunkOverlap, cleanText, indexVars, queryVars>>

\* the loop condition fails: return textChunks
ChunkReturn ==
    /\ ck_pc = "loop"
    /\ ~(i < Len(cleanText))
    /\ ck_pc' = "return"
    /\ UNCHANGED <<text, chunkSize, chunkOverlap, cleanText, i, textChunks,
                   chunkStarts, iters, indexVars, queryVars>>

ChunkNext == ChunkEnter \/ ChunkStep \/ ChunkReturn

\* ------------------------------------------------------ the docs folder

\* chunkText's default parameters
DefaultChunkSize == 1000
DefaultChunkOverlap == 200

\* the files a listing may hold: a name's extension and what the PDF parser
\* finds in the file
FileKinds ==
    { [ext |-> ".txt", doc |-> "short"],
      [ext |-> ".PDF", doc |-> "short"],
      [ext |-> ".pdf", doc |-> "short"],
      [ext |-> ".pdf", doc |-> "long"],
      [ext |-> ".pdf", doc |-> "blank"],
      [ext |-> ".pdf", doc |-> "notext"],
      [ext |-> ".pdf", doc |-> "unreadable"] }

\* file.toLowerCase().endsWith('.pdf')
ToLowerCase(ext) == IF ext = ".PDF" THEN ".pdf" ELSE ext
IsPdf(f) == ToLowerCase(f.ext) = ".pdf"

\* whether readFileSync and pdfParser.getText() succeed on the file
Readable(f) == f.doc # "unreadable"

\* pdfData.text || '' for a readable file ("notext": pdfData.text is undefined)
PdfDataText ==
    [ short  |-> <<" ", "a", " ", "b", "\n">>,
      long   |-> [k \in 1..LongTextLen |-> IF k % 7 = 0 THEN " " ELSE "a"],
      blank  |-> <<" ", "\n", " ">>,
      notext |-> <<>> ]

\* const text = (pdfData.text || '').trim()
ExtractedText ==
    [d \in DOMAIN PdfDataText |-> Trim(PdfDataText[d])]

\* !text
IsEmptyText(t) == t = <<>>

\* const textChunks = chunkText(text), per document (each computed once).  A
\* non-empty trimmed text gives at least one chunk at the defaults, so the
\* Promise.all of saveChunksAsEmbeddings never waits on an empty array here.
DocChunks ==
    [d \in DOMAIN PdfDataText |->
        ChunkText(ExtractedText[d], DefaultChunkSize, DefaultChunkOverlap)]

IndexIdle ==
    /\ ix_pc = "responded" /\ dirExists = TRUE /\ files = <<>> /\ cur = 1
    /\ ops = <<>> /\ embedCalls = {} /\ insertCalls = {} /\ store = EmptyBag
    /\ warned = {} /\ embedded = {} /\ ix_res = 200

\* a POST /index-docs about to be handled, over any folder
IndexInit ==
    /\ ix_pc = "idle"
    /\ dirExists \in BOOLEAN
    /\ files \in (IF dirExists THEN SeqsUpTo(FileKinds, MaxFiles) ELSE {<<>>})
    /\ cur = 1
    /\ ops = <<>> /\ embedCalls = {} /\ insertCalls = {} /\ store = EmptyBag
    /\ warned = {} /\ embedded = {} /\ ix_res = 0

\* a mutant of Fail: the error of one document is swallowed and the loop goes on
\* with the next file
FailSkipsDocument ==
    /\ ix_pc' = "loop"
    /\ cur' = cur + 1
    /\ UNCHANGED ix_res

\* a rejection reaches the catch of the /index-docs handler: lines 124-128
Fail ==
    /\ ix_pc' = "responded"
    /\ ix_res' = 500
    /\ UNCHANGED cur

\* the handler starts: await indexLocalDocs(), up to the for loop
IndexDocs ==
    /\ ix_pc = "idle"
    /\ IF ~dirExists
       THEN Fail
       ELSE /\ ix_pc' = "loop"
            /\ UNCHANGED <<cur, ix_res>>
    /\ UNCHANGED <<dirExists, files, ops, embedCalls, insertCalls, store, warned,
                   embedded, chunkVars, queryVars>>

\* the for loop is past the last file: indexLocalDocs returns, 200 is sent
IndexRespondOk ==
    /\ ix_pc = "loop"
    /\ cur > Len(files)
    /\ ix_pc' = "responded"
    /\ ix_res' = 200
    /\ UNCHANGED <<dirExists, files, cur, ops, embedCalls, insertCalls, store, warned,
                   embedded, chunkVars, queryVars>>

\* the next file is no PDF: continue
IndexSkipNonPdf ==
    /\ ix_pc = "loop"
    /\ cur <= Len(files)
    /\ ~IsPdf(files[cur])
    /\ cur' = cur + 1
    /\ UNCHANGED <<ix_pc, dirExists, files, ops, embedCalls, insertCalls, store, warned,
                   embedded, ix_res, chunkVars, queryVars>>

\* the next file is a PDF: readFileSync, new PDFParse, await pdfParser.getText()
IndexReadPdf ==
    /\ ix_pc = "loop"
    /\ cur <= Len(files)
    /\ IsPdf(files[cur])
    /\ ix_pc' = "extracting"
    /\ UNCHANGED <<dirExists, files, cur, ops, embedCalls, insertCalls, store, warned,
                   embedded, ix_res, chunkVars, queryVars>>

\* reading or parsing the file throws
IndexExtractFails ==
    /\ ix_pc = "extracting"
    /\ ~Readable(files[cur])
    /\ Fail
    /\ UNCHANGED <<dirExists, files, ops, embedCalls, insertCalls, store, warned,
                   embedded, chunkVars, queryVars>>

\* a mutant of IndexSkipEmpty: a document without text is an error
IndexSkipEmptyThrows ==
    /\ ix_pc = "extracting"
    /\ Readable(files[cur])
    /\ IsEmptyText(ExtractedText[files[cur].doc])
    /\ Fail
    /\ UNCHANGED <<dirExists, files, ops, embedCalls, insertCalls, store, warned,
                   embedded, chunkVars, queryVars>>

\* getText resolved with no text: console.warn, continue
IndexSkipEmpty ==
    /\ ix_pc = "extracting"
    /\ Readable(files[cur])
    /\ IsEmptyText(ExtractedText[files[cur].doc])
    /\ warned' = warned \cup {cur}
    /\ cur' = cur + 1
    /\ ix_pc' = "loop"
    /\ UNCHANGED <<dirExists, files, ops, embedCalls, insertCalls, store, embedded,
                   ix_res, chunkVars, queryVars>>

\* a mutant of IndexSaveChunks: saveChunksAsEmbeddings is not awaited, the for
\* loop goes on at once
IndexSaveChunksNoAwait ==
    /\ ix_pc = "extracting"
    /\ Readable(files[cur])
    /\ ~IsEmptyText(ExtractedText[files[cur].doc])
    /\ LET n == Len(DocChunks[files[cur].doc])
       IN  /\ ops' = [k \in 1..n |-> "embedding"]
           /\ embedCalls' = embedCalls \cup {<<cur, k>> : k \in 1..n}
    /\ ix_pc' = "loop"
    /\ cur' = cur + 1
    /\ UNCHANGED <<dirExists, files, insertCalls, store, warned, embedded,
                   ix_res, chunkVars, queryVars>>

\* getText resolved with text: chunkText, then saveChunksAsEmbeddings up to its
\* await: textChunks.map runs every callback to its first await, so every
\* embeddings.create of the document is issued here
IndexSaveChunks ==
    /\ ix_pc = "extracting"
    /\ Readable(files[cur])
    /\ ~IsEmptyText(ExtractedText[files[cur].doc])
    /\ LET n == Len(DocChunks[files[cur].doc])
       IN  /\ ops' = [k \in 1..n |-> "embedding"]
           /\ embedCalls' = embedCalls \cup {<<cur, k>> : k \in 1..n}
    /\ ix_pc' = "awaiting"
    /\ UNCHANGED <<dirExists, files, cur, insertCalls, store, warned, embedded,
                   ix_res, chunkVars, queryVars>>

\* the embedding of chunk k resolves and its callback issues the insert.  The
\* callback runs whether or not Promise.all has rejected already.
EmbedResolves(k) ==
    /\ k \in DOMAIN ops
    /\ ops[k] = "embedding"
    /\ ops' = [ops EXCEPT ![k] = "inserting"]
    /\ embedded' = embedded \cup {<<cur, k>>}
    /\ insertCalls' = insertCalls \cup {<<cur, k>>}
    /\ UNCHANGED <<ix_pc, dirExists, files, cur, embedCalls, store, warned, ix_res,
                   chunkVars, queryVars>>

\* a chunk promise rejects: Promise.all rejects on the first rejection only, and
\* the rejection runs through saveChunksAsEmbeddings and indexLocalDocs to the
\* handler's catch in the same turn of the event loop
OpRejects(k) ==
    /\ ops' = [ops EXCEPT ![k] = "failed"]
    /\ IF ix_pc = "awaiting" THEN Fail ELSE UNCHANGED <<ix_pc, cur, ix_res>>

\* openai.embeddings.create rejects for chunk k
EmbedRejects(k) ==
    /\ k \in DOMAIN ops
    /\ ops[k] = "embedding"
    /\ OpRejects(k)
    /\ UNCHANGED <<dirExists, files, embedCalls, insertCalls, store, warned, embedded,
                   chunkVars, queryVars>>

\* the insert of chunk k resolves with an error: throw error
InsertFails(k) ==
    /\ k \in DOMAIN ops
    /\ ops[k] = "inserting"
    /\ OpRejects(k)
    /\ UNCHANGED <<dirExists, files, embedCalls, insertCalls, store, warned, embedded,
                   chunkVars, queryVars>>

\* the insert of chunk k resolves without error: the row is in the table.  When
\* it was the last pending promise Promise.all resolves and the for loop goes on.
InsertSucceeds(k) ==
    /\ k \in DOMAIN ops
    /\ ops[k] = "inserting"
    /\ ops' = [ops EXCEPT ![k] = "done"]
    /\ store' = store (+) SetToBag({<<cur, k>>})
    /\ IF ix_pc = "awaiting" /\ \A j \in DOMAIN ops : ops'[j] = "done"
       THEN /\ cur' = cur + 1
            /\ ix_pc' = "loop"
       ELSE UNCHANGED <<ix_pc, cur>>
    /\ UNCHANGED <<dirExists, files, embedCalls, insertCalls, warned, embedded, ix_res,
                   chunkVars, queryVars>>

IndexNext ==
    \/ IndexDocs
    \/ IndexRespondOk
    \/ IndexSkipNonPdf
    \/ IndexReadPdf
    \/ IndexExtractFails
    \/ IndexSkipEmpty
    \/ IndexSaveChunks
    \/ \E k \in 1..Len(ops) : EmbedResolves(k)
    \/ \E k \in 1..Len(ops) : EmbedRejects(k)
    \/ \E k \in 1..Len(ops) : InsertFails(k)
    \/ \E k \in 1..Len(ops) : InsertSucceeds(k)

\* ---------------------------------------------------------- POST /query

\* JavaScript values of req.body.query: a missing key is undefined
JsUndefined == [type |-> "undefined", str |-> <<>>, num |-> 0]
JsNull == [type |-> "null", str |-> <<>>, num |-> 0]
JsString(s) == [type |-> "string", str |-> s, num |-> 0]
JsNumber(n) == [type |-> "number", str |-> <<>>, num |-> n]
JsBoolean(b) == [type |-> "boolean", str |-> <<>>, num |-> IF b THEN 1 ELSE 0]
JsArray == [type |-> "array", str |-> <<>>, num |-> 0]
JsObject == [type |-> "object", str |-> <<>>, num |-> 0]

QueryChars == {"a", " ", "\n"}

QueryValues ==
    {JsUndefined, JsNull, JsNumber(0), JsNumber(5), JsBoolean(FALSE), JsBoolean(TRUE),
     JsArray, JsObject}
    \cup {JsString(s) : s \in SeqsUpTo(QueryChars, MaxQueryLen)}

\* ToBoolean(v)
Truthy(v) ==
    CASE v.type \in {"undefined", "null"} -> FALSE
      [] v.type = "string" -> v.str # <<>>
      [] v.type \in {"number", "boolean"} -> v.num # 0
      [] OTHER -> TRUE

\* whether v.trim is a function: of these values only a string has one
HasTrim(v) == v.type = "string"

\* query.replace(/\n/g, ' ')
ReplaceNewlines(s) == [k \in 1..Len(s) |-> IF s[k] = "\n" THEN " " ELSE s[k]]

\* what match_documents may answer: { data, error }
RowContents == {<<"a">>, <<" ", "b", "\n">>}
SearchResults ==
    {[error |-> TRUE, data |-> <<>>]}
    \cup {[error |-> FALSE, data |-> d] : d \in SeqsUpTo(RowContents, MaxRows)}

\* a mutant of SearchFailed: the error of the search is ignored
SearchNeverFailed(r) == FALSE

\* if (error)
SearchFailed(r) == r.error

\* data.forEach((row, idx) => context += `Chunk ${idx + 1}:\n${row.content.trim()}\n\n`)
\* and the sentinel for an empty context
RECURSIVE ContextOf(_, _)
ContextOf(data, idx) ==
    IF idx > Len(data) THEN <<>>
    ELSE <<"Chunk ", ToString(idx), ":\n">> \o Trim(data[idx]) \o <<"\n\n">>
         \o ContextOf(data, idx + 1)

BuildContext(data) ==
    IF ContextOf(data, 1) = <<>> THEN <<"No relevant context found.">>
    ELSE ContextOf(data, 1)

Answers == {"answer1", "answer2"}

NoResponse == [status |-> 0, error |-> "", hasAnswer |-> FALSE, answer |-> ""]
ErrorResponse(code, msg) ==
    [status |-> code, error |-> msg, hasAnswer |-> FALSE, answer |-> ""]
AnswerResponse(ans) == [status |-> 200, error |-> "", hasAnswer |-> TRUE, answer |-> ans]

QueryIdle ==
    /\ q_pc = "responded" /\ query = JsUndefined /\ input = <<>> /\ rows = <<>>
    /\ context = <<>> /\ calls = <<>> /\ outcomes = <<>>
    /\ q_res = ErrorResponse(400, "Query is required")

\* a POST /query about to be handled, with any query in its body
QueryInit ==
    /\ q_pc = "idle"
    /\ query \in QueryValues
    /\ input = <<>> /\ rows = <<>> /\ context = <<>> /\ calls = <<>>
    /\ outcomes = <<>>
    /\ q_res = NoResponse

\* the catch of the /query handler: lines 211-214
QueryFail ==
    /\ q_pc' = "responded"
    /\ q_res' = ErrorResponse(500, "Internal Server Error")

\* return res.status(400).json({ error: 'Query is required' })
QueryReject ==
    /\ q_pc' = "responded"
    /\ q_res' = ErrorResponse(400, "Query is required")

\* the handler up to its first await: the validation, then processQuery up to
\* await openai.embeddings.create
QueryHandler ==
    /\ q_pc = "idle"
    /\ IF ~Truthy(query)
       THEN /\ QueryReject
            /\ UNCHANGED <<input, calls>>
       ELSE IF ~HasTrim(query)
       THEN \* query.trim is not a function: a TypeError, caught at line 211
            /\ QueryFail
            /\ UNCHANGED <<input, calls>>
       ELSE IF ~Truthy(JsString(Trim(query.str)))
       THEN /\ QueryReject
            /\ UNCHANGED <<input, calls>>
       ELSE /\ input' = ReplaceNewlines(query.str)
            /\ calls' = <<"embed">>
            /\ q_pc' = "embedding"
            /\ UNCHANGED q_res
    /\ UNCHANGED <<query, rows, context, outcomes, chunkVars, indexVars>>

\* the query's embedding resolves: supabase.rpc('match_documents') is issued
QueryEmbedResolves ==
    /\ q_pc = "embedding"
    /\ outcomes' = Append(outcomes, "ok")
    /\ calls' = Append(calls, "search")
    /\ q_pc' = "searching"
    /\ UNCHANGED <<query, input, rows, context, q_res, chunkVars, indexVars>>

\* the query's embedding rejects
QueryEmbedRejects ==
    /\ q_pc = "embedding"
    /\ outcomes' = Append(outcomes, "error")
    /\ QueryFail
    /\ UNCHANGED <<query, input, rows, context, calls, chunkVars, indexVars>>

\* the search resolves with r = { data, error }: throw on its error, else build
\* the context and issue openai.chat.completions.create
QuerySearchResolves(r) ==
    /\ q_pc = "searching"
    /\ outcomes' = Append(outcomes, IF r.error THEN "error" ELSE "ok")
    /\ IF SearchFailed(r)
       THEN /\ QueryFail
            /\ UNCHANGED <<rows, context, calls>>
       ELSE /\ rows' = r.data
            /\ context' = BuildContext(r.data)
            /\ calls' = Append(calls, "generate")
            /\ q_pc' = "generating"
            /\ UNCHANGED q_res
    /\ UNCHANGED <<query, input, chunkVars, indexVars>>

\* the completion resolves: res.status(200).json({ answer })
QueryGenerateResolves(ans) ==
    /\ q_pc = "generating"
    /\ outcomes' = Append(outcomes, "ok")
    /\ q_pc' = "responded"
    /\ q_res' = AnswerResponse(ans)
    /\ UNCHANGED <<query, input, rows, context, calls, chunkVars, indexVars>>

\* the completion rejects
QueryGenerateRejects ==
    /\ q_pc = "generating"
    /\ outcomes' = Append(outcomes, "error")
    /\ QueryFail
    /\ UNCHANGED <<query, input, rows, context, calls, chunkVars, indexVars>>

QueryNext ==
    \/ QueryHandler
    \/ QueryEmbedResolves
    \/ QueryEmbedRejects
    \/ \E r \in SearchResults : QuerySearchResolves(r)
    \/ \E ans \in Answers : QueryGenerateResolves(ans)
    \/ QueryGenerateRejects

\* ------------------------------------------------------- specifications

\* one call of chunkText, with any arguments
InitChunk == ChunkInit /\ IndexIdle /\ QueryIdle
SpecChunk == InitChunk /\ [][ChunkNext]_vars

\* one POST /index-docs, over any folder
InitIndex == ChunkIdle /\ IndexInit /\ QueryIdle
SpecIndex == InitIndex /\ [][IndexNext]_vars

\* one POST /query, with any body
InitQuery == ChunkIdle /\ IndexIdle /\ QueryInit
SpecQuery == InitQuery /\ [][QueryNext]_vars

\* ----------------------------------------------------------------- claims

\* the claim's "a string that is non-empty after trimming"
IsUsableQuery(v) == v.type = "string" /\ Trim(v.str) # <<>>

\* C1 (as claimed): every /query request whose query is anything other than a
\* string that is non-empty after trimming is answered 400, and no embedding,
\* search or generation call is issued for it.
C1_InvalidQueryGets400 ==
    (q_pc = "responded" /\ ~IsUsableQuery(query))
        => (q_res.status = 400 /\ calls = <<>>)

\* C2 (as claimed): a text whose cleaned form is non-empty and shorter than
\* chunkSize, chunked with chunkOverlap < chunkSize, gives exactly one chunk,
\* the cleaned text.
C2_ShortTextOneChunk ==
    (/\ ck_pc = "return"
     /\ chunkOverlap < chunkSize
     /\ CleanText(text) # <<>>
     /\ Len(CleanText(text)) < chunkSize)
        => textChunks = <<CleanText(text)>>

\* the positions of cleanText (from 0) the returned chunks cover
Covered ==
    UNION {chunkStarts[k] .. (chunkStarts[k] + Len(textChunks[k]) - 1) :
             k \in 1..Len(textChunks)}

\* each returned chunk is the part of cleanText at its offset, at most
\* chunkSize long
ChunksAreSlices ==
    /\ Len(chunkStarts) = Len(textChunks)
    /\ \A k \in 1..Len(textChunks) :
         /\ Len(textChunks[k]) <= chunkSize
         /\ textChunks[k] = SubSeq(cleanText, chunkStarts[k] + 1,
                                   chunkStarts[k] + Len(textChunks[k]))

\* C3 (as claimed): for a non-empty cleaned text of length L and
\* 0 <= chunkOverlap < chunkSize, every returned chunk is at most chunkSize
\* long and the ranges of the returned chunks cover [0, L) without a gap.
C3_ChunksCoverText ==
    (ck_pc = "return" /\ chunkOverlap < chunkSize /\ cleanText # <<>>)
        => (ChunksAreSlices /\ Covered = 0..(Len(cleanText) - 1))

\* C3 (amended): every returned chunk is at most chunkSize long and the ranges
\* of the returned chunks cover [0, L) but for the positions of the
\* one-character fragments dropped as whitespace-only: the spaces of the text
\* when chunkSize = 1, and nothing when chunkSize >= 2.
C3_ChunksCoverTextButDropped ==
    (ck_pc = "return" /\ chunkOverlap < chunkSize /\ cleanText # <<>>)
        => /\ ChunksAreSlices
           /\ Covered = {p \in 0..(Len(cleanText) - 1) :
                           ~(chunkSize = 1 /\ IsSpace(cleanText[p + 1]))}

\* C3's case: a call returned chunks of a text with a space in it, once with
\* chunkSize 1 and once with overlapping chunks
C3_Witness ==
    /\ ck_pc = "return"
    /\ chunkOverlap < chunkSize
    /\ Len(cleanText) = 3 /\ cleanText[2] = " "
    /\ \/ chunkSize = 1 /\ Len(textChunks) = 2
       \/ chunkSize = 2 /\ chunkOverlap = 1 /\ Len(textChunks) = 3

\* the last n characters of s, and the first n (all of s when it is shorter)
LastChars(s, n) == SubSeq(s, Max(1, Len(s) - n + 1), Len(s))
FirstChars(s, n) == SubSeq(s, 1, Min(n, Len(s)))

\* C4 (as claimed): for chunkOverlap < chunkSize, the last chunkOverlap
\* characters of a returned chunk are the first chunkOverlap characters of the
\* next one, for every pair of consecutive chunks but the final pair.
C4_ConsecutiveChunksOverlap ==
    (ck_pc = "return" /\ chunkOverlap < chunkSize)
        => \A k \in 1..(Len(textChunks) - 2) :
             LastChars(textChunks[k], chunkOverlap)
                 = FirstChars(textChunks[k + 1], chunkOverlap)

\* C5 (as claimed): chunkText ends: every loop body moves the offset forward
\* (a call whose stride is not positive is rejected before the loop).
C5_OffsetAdvances ==
    [][(ck_pc = "loop" /\ ck_pc' = "loop") => i' > i]_vars

\* the PDFs of the listing whose extracted text is empty or whitespace-only
IsBlankPdf(f) ==
    /\ IsPdf(f)
    /\ Readable(f)
    /\ \A k \in 1..Len(PdfDataText[f.doc]) : IsSpace(PdfDataText[f.doc][k])

\* the PDFs of the listing that have text
IsTextPdf(f) == IsPdf(f) /\ Readable(f) /\ ~IsBlankPdf(f)

Requested == embedCalls \cup insertCalls \cup BagToSet(store)

\* every chunk of file number f is in the table, once
AllStored(f) ==
    \A c \in 1..Len(DocChunks[files[f].doc]) : CopiesIn(<<f, c>>, store) = 1

\* C6: a PDF whose extracted text is empty or whitespace-only gets no embedding
\* request and no insert, raises no error (the request never ends at it, the
\* loop goes on past it with a warning), and a 500 is always the failure of
\* another file.
C6_EmptyTextSkipped ==
    /\ \A f \in 1..Len(files) :
         IsBlankPdf(files[f])
             => /\ \A r \in Requested : r[1] # f
                /\ (ix_pc = "responded" /\ ix_res = 500) => cur # f
                /\ (cur = f) => ix_pc \in {"idle", "loop", "extracting"}
                /\ (cur > f) <=> (f \in warned)
    /\ ix_res = 500
         => \/ ~dirExists
            \/ /\ cur \in 1..Len(files)
               /\ \/ IsPdf(files[cur]) /\ ~Readable(files[cur])
                  \/ IsTextPdf(files[cur]) /\ \E k \in DOMAIN ops : ops[k] = "failed"

\* C6's case: 200 was sent for a folder whose first PDF has no text and whose
\* later PDF has been indexed
C6_Witness ==
    /\ ix_pc = "responded" /\ ix_res = 200
    /\ Len(files) >= 2
    /\ IsBlankPdf(files[1]) /\ 1 \in warned
    /\ IsTextPdf(files[2]) /\ AllStored(2)

\* C7 (as claimed): once the error response of /index-docs is sent, no further
\* chunk of the failed document is embedded or inserted.
C7_NoWorkAfterFailure ==
    [][(ix_pc = "responded" /\ ix_res = 500)
          => (embedded' = embedded /\ insertCalls' = insertCalls /\ store' = store)]_vars

IsPrefix(s, t) == Len(s) <= Len(t) /\ s = SubSeq(t, 1, Len(s))

\* C8: the calls of a valid query are issued in the order embed, search,
\* generate, one at a time, each after the one before ended without error and
\* the generation only with the context built from the search's rows; when the
\* embedding or the search fails the generation is never called and the
\* response is the 500 with the generic message and no answer.
C8_StagesInOrder ==
    /\ IsPrefix(calls, <<"embed", "search", "generate">>)
    /\ Len(outcomes) <= Len(calls) /\ Len(calls) <= Len(outcomes) + 1
    /\ \A k \in 1..(Len(calls) - 1) : outcomes[k] = "ok"
    /\ IF Len(calls) = 3 THEN context = BuildContext(rows) ELSE context = <<>>
    /\ (\E k \in 1..Len(outcomes) : k <= 2 /\ outcomes[k] = "error")
         => /\ q_pc = "responded"
            /\ q_res = ErrorResponse(500, "Internal Server Error")
            /\ ~q_res.hasAnswer
            /\ Len(calls) < 3

\* C8's case: the search of a valid query failed after its embedding
C8_Witness ==
    /\ q_pc = "responded"
    /\ IsUsableQuery(query)
    /\ outcomes = <<"ok", "error">>

\* C9: once a chunk's embedding or insert failed in document k, the request
\* has ended with 500, nothing is requested for a document after k, and every
\* chunk of the documents before k is still in the table.
C9_FirstErrorAbortsFolder ==
    (\E k \in DOMAIN ops : ops[k] = "failed")
        => /\ ix_pc = "responded" /\ ix_res = 500
           /\ \A r \in Requested : r[1] <= cur
           /\ \A f \in 1..(cur - 1) : IsTextPdf(files[f]) => AllStored(f)

\* C9's case: a chunk of the second of three documents failed after the first
\* document was stored
C9_Witness ==
    /\ Len(files) = 3 /\ cur = 2
    /\ \A f \in 1..3 : IsTextPdf(files[f])
    /\ \E k \in DOMAIN ops : ops[k] = "failed"
    /\ AllStored(1)

\* C10: when 200 is sent every chunk of every PDF with text is in the table
\* exactly once and no chunk operation is pending or failed; an insert is only
\* ever issued for a chunk whose embedding resolved, and only issued inserts
\* put rows in the table.
C10_OkMeansAllStored ==
    /\ ix_res = 200
         => /\ \A f \in 1..Len(files) :
                 IsPdf(files[f])
                     => /\ Readable(files[f])
                        /\ IsTextPdf(files[f]) => AllStored(f)
            /\ \A k \in DOMAIN ops : ops[k] = "done"
    /\ insertCalls \subseteq embedded
    /\ embedded \subseteq embedCalls
    /\ BagToSet(store) \subseteq insertCalls
    /\ \A r \in BagToSet(store) : CopiesIn(r, store) = 1

\* C10's case: 200 was sent for a folder with a two-chunk document and a
\* one-chunk document
C10_Witness ==
    /\ ix_pc = "responded" /\ ix_res = 200
    /\ \E f, g \in 1..Len(files) :
         /\ IsTextPdf(files[f]) /\ Len(DocChunks[files[f].doc]) = 2
         /\ IsTextPdf(files[g]) /\ Len(DocChunks[files[g].doc]) = 1
    /\ BagCardinality(store) >= 3

====
